---------------------------- MODULE Spec2Model ----------------------------
(***************************************************************************)
(* A model of the tiered data-encryption engine                            *)
(* (backend/services/encryption_service.py, class EncryptionService).      *)
(*                                                                         *)
(* Text is a sequence of one-character strings, a byte string a sequence   *)
(* of bytes.  A byte is a tagged tuple: <<"b", n>> is the concrete byte n, *)
(* the other tags are bytes of cryptographic outputs, which are kept       *)
(* symbolic (the usual perfect-cryptography assumption: a hash, a key      *)
(* derivation, a nonce, a keystream and an authentication tag are free     *)
(* constructors, equal only when built from equal arguments).              *)
(***************************************************************************)
EXTENDS Integers, Sequences, FiniteSets, TLC

VARIABLES master_key,   \* self.master_key
          key_version,  \* self.key_version (text)
          data_keys,    \* self.data_keys: category -> working key
          clock,        \* datetime.now(), in whole seconds after the base time
          pc,           \* position of the running rotate_keys call, or "idle"
          key_file,     \* the file at master_key_path, and what happened to it
          held,         \* what the caller holds: an artifact or an encrypted record
          res           \* the value returned by the last public operation

vars == <<master_key, key_version, data_keys, clock, key_file, pc, held, res>>

(***************************************************************************)
(* Bounds of the model.                                                    *)
(***************************************************************************)
MaxClock == 1

\* Master keys generated on one path, and initialisations run on it.
MaxGenerated == 2
MaxInits == 2

None == <<"none">>

(***************************************************************************)
(* Text and bytes.                                                         *)
(***************************************************************************)
Ascii == <<"SOH", "STX", "ETX", "EOT", "ENQ", "ACK", "BEL", "BS", "HT", "LF",
           "VT", "FF", "CR", "SO", "SI", "DLE", "DC1", "DC2", "DC3", "DC4",
           "NAK", "SYN", "ETB", "CAN", "EM", "SUB", "ESC", "FS", "GS", "RS", "US",
           " ", "!", "\"", "#", "$", "%", "&", "'", "(", ")", "*", "+", ",",
           "-", ".", "/", "0", "1", "2", "3", "4", "5", "6", "7", "8", "9",
           ":", ";", "<", "=", ">", "?", "@", "A", "B", "C", "D", "E", "F",
           "G", "H", "I", "J", "K", "L", "M", "N", "O", "P", "Q", "R", "S",
           "T", "U", "V", "W", "X", "Y", "Z", "[", "\\", "]", "^", "_", "GRAVE",
           "a", "b", "c", "d", "e", "f", "g", "h", "i", "j", "k", "l", "m",
           "n", "o", "p", "q", "r", "s", "t", "u", "v", "w", "x", "y", "z",
           "{", "|", "}", "~">>

AsciiBase == 0

OrdTable == [ch \in {Ascii[i] : i \in 1..Len(Ascii)} |->
                AsciiBase + (CHOOSE i \in 1..Len(Ascii) : Ascii[i] = ch)]

\* ord(ch), for the characters of the table and "NUL", the character 0.
Ord(ch) == IF ch = "NUL" THEN 0 ELSE OrdTable[ch]

Chr(n) == IF n = 0 THEN "NUL" ELSE Ascii[n - AsciiBase]

\* A text whose SHA-256 digest (06dfa74d 7519da9f 102302d2 b213dd86 16744573
\* 0a55751e 44223709 6f28341c) is valid UTF-8.
DigestText == <<"1", "2", "4", "9", "3", "5", "9", "8", "9">>

\* A byte that bytes.decode('utf-8') accepts where it stands: a byte below
\* 128, or a byte of a digest that is valid UTF-8 as a whole.
IsTextByte(b) ==
    \/ b[1] = "b" /\ b[2] >= AsciiBase /\ b[2] <= AsciiBase + Len(Ascii)
    \/ b[1] = "h" /\ b[3][2] = [i \in 1..Len(DigestText) |->
                                   <<"b", OrdTable[DigestText[i]]>>]

\* str.encode('utf-8') on text of the table above: one byte per character.
Utf8Encode(chars) == [i \in 1..Len(chars) |-> <<"b", Ord(chars[i])>>]

\* bytes.decode('utf-8'): fails (UnicodeDecodeError) on bytes that are no text.
\* The characters of a digest are not known: each is written "DIGEST".
Utf8Decode(bytes) ==
    IF \A i \in 1..Len(bytes) : IsTextByte(bytes[i])
    THEN [ok |-> TRUE,
          text |-> [i \in 1..Len(bytes) |->
                       IF bytes[i][1] = "h" THEN "DIGEST" ELSE Chr(bytes[i][2])]]
    ELSE [ok |-> FALSE, text |-> <<>>]

\* Python slicing seq[a:b] with 0-based a, b >= 0 (clipped to the length).
Slice(seq, a, b) ==
    LET hi == IF b < Len(seq) THEN b ELSE Len(seq)
    IN  IF a >= hi THEN <<>> ELSE [i \in 1..(hi - a) |-> seq[a + i]]

SliceFrom(seq, a) == Slice(seq, a, Len(seq))

Byte == 256

\* n.to_bytes(4, 'big')
ToBytes4(n) == << <<"b", (n \div (Byte * Byte * Byte)) % Byte>>,
                  <<"b", (n \div (Byte * Byte)) % Byte>>,
                  <<"b", (n \div Byte) % Byte>>,
                  <<"b", n % Byte>> >>

\* int.from_bytes(bytes, 'big'), of concrete bytes.
RECURSIVE IntFromBytes(_)
IntFromBytes(bytes) ==
    IF bytes = <<>> THEN 0
    ELSE IntFromBytes(SubSeq(bytes, 1, Len(bytes) - 1)) * Byte
         + bytes[Len(bytes)][2]

Digits == <<"0", "1", "2", "3", "4", "5", "6", "7", "8", "9">>

Digit(k) == Digits[k + 1]

TwoDigits(n) == <<Digit((n \div 10) % 10), Digit(n % 10)>>

SixDigits(n) == <<Digit((n \div 100000) % 10), Digit((n \div 10000) % 10),
                  Digit((n \div 1000) % 10), Digit((n \div 100) % 10),
                  Digit((n \div 10) % 10), Digit(n % 10)>>

(***************************************************************************)
(* datetime.now(): the base time is 2026-01-01 00:00:00, clock counts the  *)
(* seconds after it (clock < 60), us the microseconds.                     *)
(***************************************************************************)
Micros == {0, 250000}

\* now.strftime('%Y%m%d_%H%M%S')
Strftime(t) == <<"2", "0", "2", "6", "0", "1", "0", "1", "_",
                 "0", "0", "0", "0">> \o TwoDigits(t)

\* now.isoformat(): the fraction is left out when microsecond is 0.
Isoformat(t, us) ==
    <<"2", "0", "2", "6", "-", "0", "1", "-", "0", "1", "T",
      "0", "0", ":", "0", "0", ":">> \o TwoDigits(t)
    \o (IF us = 0 THEN <<>> ELSE <<".">> \o SixDigits(us))

(***************************************************************************)
(* Values: str, dict and list as the callers pass them, and what           *)
(* json.loads can give back.  A value is <<tag, payload>>:                 *)
(*   <<"str", text>>, <<"num", literal text>>, <<"lit", "true"|"false"|    *)
(*   "null">>, <<"list", values>>, <<"dict", <<key text, value>> pairs>>,  *)
(*   <<"obj", name>>: an object json cannot serialize (a datetime, ...).   *)
(***************************************************************************)
Str(text) == <<"str", text>>
Num(text) == <<"num", text>>
Lit(name) == <<"lit", name>>
List(items) == <<"list", items>>
Dict(pairs) == <<"dict", pairs>>
Obj(name) == <<"obj", name>>

RECURSIVE EscapeString(_)
EscapeString(text) ==
    IF text = <<>> THEN <<>>
    ELSE (IF Head(text) \in {"\"", "\\"} THEN <<"\\", Head(text)>>
          ELSE IF Head(text) = "NUL" THEN <<"\\", "u", "0", "0", "0", "0">>
          ELSE <<Head(text)>>) \o EscapeString(Tail(text))

\* json.dumps(v, ensure_ascii=False): [ok, text]; ok is FALSE for the
\* TypeError "Object of type ... is not JSON serializable".
RECURSIVE JsonDumps(_), DumpItems(_), DumpPairs(_)
JsonDumps(v) ==
    CASE v[1] = "str" -> [ok |-> TRUE, text |-> <<"\"">> \o EscapeString(v[2]) \o <<"\"">>]
      [] v[1] = "num" -> [ok |-> TRUE, text |-> v[2]]
      [] v[1] = "lit" ->
            [ok |-> TRUE,
             text |-> CASE v[2] = "true" -> <<"t", "r", "u", "e">>
                        [] v[2] = "false" -> <<"f", "a", "l", "s", "e">>
                        [] OTHER -> <<"n", "u", "l", "l">>]
      [] v[1] = "list" ->
            LET Wrap(r) == [ok |-> r.ok, text |-> <<"[">> \o r.text \o <<"]">>]
            IN  Wrap(DumpItems(v[2]))
      [] v[1] = "dict" ->
            LET Wrap(r) == [ok |-> r.ok, text |-> <<"{">> \o r.text \o <<"}">>]
            IN  Wrap(DumpPairs(v[2]))
      [] OTHER -> [ok |-> FALSE, text |-> <<>>]

DumpItems(items) ==
    LET Join(h, t) ==
            [ok |-> h.ok /\ t.ok,
             text |-> h.text \o (IF Tail(items) = <<>> THEN <<>> ELSE <<",", " ">>)
                      \o t.text]
    IN  IF items = <<>> THEN [ok |-> TRUE, text |-> <<>>]
        ELSE Join(JsonDumps(Head(items)), DumpItems(Tail(items)))

DumpPairs(pairs) ==
    LET Join(h, t) ==
            [ok |-> h.ok /\ t.ok,
             text |-> <<"\"">> \o EscapeString(Head(pairs)[1]) \o <<"\"", ":", " ">>
                      \o h.text
                      \o (IF Tail(pairs) = <<>> THEN <<>> ELSE <<",", " ">>)
                      \o t.text]
    IN  IF pairs = <<>> THEN [ok |-> TRUE, text |-> <<>>]
        ELSE Join(JsonDumps(Head(pairs)[2]), DumpPairs(Tail(pairs)))

(***************************************************************************)
(* json.loads(text): the decoder of the standard library on text of the    *)
(* table above (escapes other than \" \\ \/ \u0000 name characters outside *)
(* it; a control character inside a string is an error).                   *)
(* A parse result is [ok, val, next]; next is the index after the value.   *)
(***************************************************************************)
ParseFail == [ok |-> FALSE, val |-> None, next |-> 0]

ParseOk(v, n) == [ok |-> TRUE, val |-> v, next |-> n]

At(s, i) == IF i >= 1 /\ i <= Len(s) THEN s[i] ELSE "EOF"

IsDigit(ch) == ch \in {"0", "1", "2", "3", "4", "5", "6", "7", "8", "9"}

RECURSIVE SkipWs(_, _)
SkipWs(s, i) == IF At(s, i) \in {" ", "HT", "LF", "CR"} THEN SkipWs(s, i + 1) ELSE i

RECURSIVE SkipDigits(_, _)
SkipDigits(s, i) == IF IsDigit(At(s, i)) THEN SkipDigits(s, i + 1) ELSE i

StartsWith(s, i, word) ==
    /\ i + Len(word) - 1 <= Len(s)
    /\ \A k \in 1..Len(word) : s[i + k - 1] = word[k]

\* NUMBER_RE: (-?(?:0|[1-9]\d*))(\.\d+)?([eE][-+]?\d+)?
ParseNumber(s, i) ==
    LET Integer(j0) == IF At(s, j0) = "0" THEN j0 + 1
                       ELSE IF IsDigit(At(s, j0)) THEN SkipDigits(s, j0)
                       ELSE 0
        Fraction(j1) == IF At(s, j1) = "." /\ IsDigit(At(s, j1 + 1))
                        THEN SkipDigits(s, j1 + 1) ELSE j1
        Exponent(j2, e0) == IF At(s, j2) \in {"e", "E"} /\ IsDigit(At(s, e0))
                            THEN SkipDigits(s, e0) ELSE j2
        Matched(j3) == ParseOk(Num(SubSeq(s, i, j3 - 1)), j3)
        AfterFraction(j2) ==
            Matched(Exponent(j2, IF At(s, j2 + 1) \in {"+", "-"} THEN j2 + 2 ELSE j2 + 1))
        AfterInteger(j1) == IF j1 = 0 THEN ParseFail ELSE AfterFraction(Fraction(j1))
    IN  AfterInteger(Integer(IF At(s, i) = "-" THEN i + 1 ELSE i))

RECURSIVE ParseStringBody(_, _, _)
ParseStringBody(s, i, acc) ==
    CASE i > Len(s) -> ParseFail
      [] s[i] = "\"" -> ParseOk(Str(acc), i + 1)
      [] s[i] = "\\" ->
            IF At(s, i + 1) \in {"\"", "\\", "/"}
            THEN ParseStringBody(s, i + 2, Append(acc, s[i + 1]))
            ELSE IF StartsWith(s, i + 1, <<"u", "0", "0", "0", "0">>)
            THEN ParseStringBody(s, i + 6, Append(acc, "NUL"))
            ELSE ParseFail
      [] s[i] \in {"NUL"} \cup {Ascii[k] : k \in 1..31} -> ParseFail
      [] OTHER -> ParseStringBody(s, i + 1, Append(acc, s[i]))

\* A repeated key keeps its first place and takes the last value.
PutPair(pairs, k, v) ==
    IF \E n \in 1..Len(pairs) : pairs[n][1] = k
    THEN [n \in 1..Len(pairs) |-> IF pairs[n][1] = k THEN <<k, v>> ELSE pairs[n]]
    ELSE Append(pairs, <<k, v>>)

RECURSIVE ParseValue(_, _), ParseElems(_, _, _), ParseMembers(_, _, _)
ParseValue(s, i) ==
    LET ch == At(s, i)
    IN  CASE ch = "\"" -> ParseStringBody(s, i + 1, <<>>)
          [] ch = "[" ->
                LET j == SkipWs(s, i + 1)
                IN  IF At(s, j) = "]" THEN ParseOk(List(<<>>), j + 1)
                    ELSE ParseElems(s, j, <<>>)
          [] ch = "{" ->
                LET j == SkipWs(s, i + 1)
                IN  IF At(s, j) = "}" THEN ParseOk(Dict(<<>>), j + 1)
                    ELSE ParseMembers(s, j, <<>>)
          [] ch = "n" /\ StartsWith(s, i, <<"n", "u", "l", "l">>) ->
                ParseOk(Lit("null"), i + 4)
          [] ch = "t" /\ StartsWith(s, i, <<"t", "r", "u", "e">>) ->
                ParseOk(Lit("true"), i + 4)
          [] ch = "f" /\ StartsWith(s, i, <<"f", "a", "l", "s", "e">>) ->
                ParseOk(Lit("false"), i + 5)
          [] ch = "N" /\ StartsWith(s, i, <<"N", "a", "N">>) ->
                ParseOk(Num(<<"N", "a", "N">>), i + 3)
          [] ch = "I" /\ StartsWith(s, i, <<"I", "n", "f", "i", "n", "i", "t", "y">>) ->
                ParseOk(Num(SubSeq(s, i, i + 7)), i + 8)
          [] ch = "-" /\ StartsWith(s, i + 1, <<"I", "n", "f", "i", "n", "i", "t", "y">>) ->
                ParseOk(Num(SubSeq(s, i, i + 8)), i + 9)
          [] OTHER -> ParseNumber(s, i)

\* s[i] starts an element; acc holds the elements before it.
ParseElems(s, i, acc) ==
    LET After(r, j) ==
            CASE At(s, j) = "]" -> ParseOk(List(Append(acc, r.val)), j + 1)
              [] At(s, j) = "," -> ParseElems(s, SkipWs(s, j + 1), Append(acc, r.val))
              [] OTHER -> ParseFail
        Element(r) == IF ~r.ok THEN ParseFail ELSE After(r, SkipWs(s, r.next))
    IN  Element(ParseValue(s, i))

\* s[i] starts a member "key": value; acc holds the pairs before it.
ParseMembers(s, i, acc) ==
    LET After(k, r, j) ==
            CASE At(s, j) = "}" -> ParseOk(Dict(PutPair(acc, k.val[2], r.val)), j + 1)
              [] At(s, j) = "," ->
                    ParseMembers(s, SkipWs(s, j + 1), PutPair(acc, k.val[2], r.val))
              [] OTHER -> ParseFail
        Member(k, r) == IF ~r.ok THEN ParseFail ELSE After(k, r, SkipWs(s, r.next))
        Colon(k, c) ==
            IF k.ok /\ At(s, c) = ":"
            THEN Member(k, ParseValue(s, SkipWs(s, c + 1)))
            ELSE ParseFail
        Key(k) == Colon(k, SkipWs(s, k.next))
    IN  Key(IF At(s, i) = "\"" THEN ParseStringBody(s, i + 1, <<>>) ELSE ParseFail)

\* json.loads(text): [ok, val]; ok is FALSE for json.JSONDecodeError.
JsonLoads(text) ==
    LET Whole(r) == IF r.ok /\ SkipWs(text, r.next) = Len(text) + 1
                    THEN [ok |-> TRUE, val |-> r.val]
                    ELSE [ok |-> FALSE, val |-> None]
    IN  Whole(ParseValue(text, SkipWs(text, 1)))

(***************************************************************************)
(* The enumerations, by their values.                                      *)
(***************************************************************************)
EncryptionLevel == {"basic", "standard", "high", "maximum"}

DataCategory == {"personal_info", "financial_data", "legal_documents",
                 "authentication", "session_data", "system_config"}

\* The order in which "for category in DataCategory" runs.
CategoryOrder == <<"personal_info", "financial_data", "legal_documents",
                   "authentication", "session_data", "system_config">>

\* category.value as text, for the f-strings.
CategoryChars(category) ==
    CASE category = "personal_info" ->
            <<"p", "e", "r", "s", "o", "n", "a", "l", "_", "i", "n", "f", "o">>
      [] category = "financial_data" ->
            <<"f", "i", "n", "a", "n", "c", "i", "a", "l", "_", "d", "a", "t", "a">>
      [] category = "legal_documents" ->
            <<"l", "e", "g", "a", "l", "_", "d", "o", "c", "u", "m", "e", "n", "t", "s">>
      [] category = "authentication" ->
            <<"a", "u", "t", "h", "e", "n", "t", "i", "c", "a", "t", "i", "o", "n">>
      [] category = "session_data" ->
            <<"s", "e", "s", "s", "i", "o", "n", "_", "d", "a", "t", "a">>
      [] category = "system_config" ->
            <<"s", "y", "s", "t", "e", "m", "_", "c", "o", "n", "f", "i", "g">>

\* self.key_version = "v1.0"
InitialVersion == <<"v", "1", ".", "0">>

\* f"v{datetime.now().strftime('%Y%m%d_%H%M%S')}"
RotatedVersion(now) == <<"v">> \o Strftime(now)

(***************************************************************************)
(* Cryptographic primitives (symbolic).                                    *)
(***************************************************************************)
HashLen == 32
NonceLen == 12
TagLen == 16

\* hashlib.sha256(data).digest(), as a unit and as its 32 bytes.
Sha256(data) == <<"sha256", data>>

DigestBytes(digest) == [i \in 1..HashLen |-> <<"h", i, digest>>]

\* PBKDF2HMAC(SHA256, length=32, salt, iterations=100000).derive(password)
Pbkdf2(password, salt) == <<"pbkdf2", password, salt>>

\* os.urandom(n), the r-th draw of randomness named what.
Urandom(r, what, n) == [i \in 1..n |-> <<"rnd", r, what, i>>]

\* AES-256-GCM: the ciphertext has the plaintext's length, the tag 16 bytes.
GcmCiphertext(key, iv, pt) == [i \in 1..Len(pt) |-> <<"ct", key, iv, i, pt[i]>>]

GcmTag(key, iv, pt) == [j \in 1..TagLen |-> <<"tag", j, key, iv, pt>>]

\* decryptor.update(ct) + decryptor.finalize(): InvalidTag unless ct and tag
\* are what this key and iv give for some plaintext.
GcmDecrypt(key, iv, tag, ct) ==
    LET wellformed == \A i \in 1..Len(ct) :
                         /\ Len(ct[i]) = 5
                         /\ ct[i][1] = "ct"
                         /\ ct[i][2] = key
                         /\ ct[i][3] = iv
                         /\ ct[i][4] = i
        Verify(pt) == IF tag = GcmTag(key, iv, pt)
                      THEN [ok |-> TRUE, bytes |-> pt]
                      ELSE [ok |-> FALSE, bytes |-> <<>>]
    IN  IF Len(iv) = NonceLen /\ Len(tag) = TagLen /\ wellformed
        THEN Verify([i \in 1..Len(ct) |-> ct[i][5]])
        ELSE [ok |-> FALSE, bytes |-> <<>>]

(***************************************************************************)
(* A stretch of bytes whose layout the engine never reads (a Fernet token, *)
(* an RSA ciphertext, a PEM file, the JSON text of the MAXIMUM envelope)   *)
(* is one symbolic element of a byte string.                               *)
(***************************************************************************)
Chunk(c) == <<c>>

IsChunk(bytes, kind) == Len(bytes) = 1 /\ bytes[1][1] = kind

\* Fernet(urlsafe_b64encode(key)).encrypt(data)
FernetEncrypt(key, now, r, data) == Chunk(<<"fernet", key, now, r, data>>)

\* Fernet(...).decrypt(token): InvalidToken unless the token is this key's.
FernetDecrypt(key, token) ==
    IF IsChunk(token, "fernet") /\ token[1][2] = key
    THEN [ok |-> TRUE, bytes |-> token[1][5]]
    ELSE [ok |-> FALSE, bytes |-> <<>>]

\* rsa.generate_private_key(...): the key pair of the r-th draw.
RsaKeyPair(r) == <<"rsa", r>>

\* rsa_public_key.encrypt(aes_key, OAEP)
RsaEncrypt(pair, r, secret) == Chunk(<<"oaep", pair, r, secret>>)

RsaDecrypt(pair, bytes) ==
    IF IsChunk(bytes, "oaep") /\ bytes[1][2] = pair
    THEN [ok |-> TRUE, secret |-> bytes[1][4]]
    ELSE [ok |-> FALSE, secret |-> None]

\* private_bytes(PEM, PKCS8, BestAvailableEncryption(password))
PemEncrypt(password, pair) == Chunk(<<"pem", password, pair>>)

\* serialization.load_pem_private_key(pem, password)
PemLoad(password, bytes) ==
    IF IsChunk(bytes, "pem") /\ bytes[1][2] = password
    THEN [ok |-> TRUE, pair |-> bytes[1][3]]
    ELSE [ok |-> FALSE, pair |-> None]

(***************************************************************************)
(* base64 text is <<"b64", bytes, form>>.  The encoder gives the canonical *)
(* text of the bytes.  The decoder (validate=False) ignores the unused     *)
(* bits of the last character before the padding, so text of form "slack"  *)
(* (the canonical text with that character replaced by another one of the  *)
(* same leading bits) decodes to the same bytes; text of form "badpad"     *)
(* raises binascii.Error.                                                  *)
(***************************************************************************)
B64Encode(bytes) == <<"b64", bytes, "canonical">>

B64Decode(text) ==
    IF Len(text) = 3 /\ text[1] = "b64" /\ text[3] # "badpad"
    THEN [ok |-> TRUE, bytes |-> text[2]]
    ELSE [ok |-> FALSE, bytes |-> <<>>]

(***************************************************************************)
(* Key hierarchy.                                                          *)
(***************************************************************************)
\* A faulty salt input: the version alone, without the category.
SaltInputNoCategory(category, version) == <<"k", "e", "y", "_">> \o version

\* f"{category.value}_{self.key_version}"
SaltInput(category, version) == CategoryChars(category) \o <<"_">> \o version

derive_category_key(mk, version, category) ==
    Pbkdf2(mk, Sha256(Utf8Encode(SaltInput(category, version))))

\* A faulty cache: the keys already held are kept, whatever the version.
InitializeStale(keys, mk, version, n) == keys

\* _initialize_category_keys after its first n categories: those hold the
\* key derived under version, the others still hold keys[c].
InitializeUpTo(keys, mk, version, n) ==
    [c \in DataCategory |->
        IF \E i \in 1..n : CategoryOrder[i] = c
        THEN derive_category_key(mk, version, c)
        ELSE keys[c]]

initialize_category_keys(keys, mk, version) ==
    InitializeUpTo(keys, mk, version, Len(CategoryOrder))

(***************************************************************************)
(* EncryptionMetadata.to_dict()                                            *)
(***************************************************************************)
Metadata(data_id, level, category, now, us, version, algorithm, iv) ==
    [data_id |-> data_id,
     encryption_level |-> level,
     data_category |-> category,
     encrypted_at |-> Isoformat(now, us),
     key_version |-> version,
     algorithm |-> algorithm,
     salt |-> None,
     iv |-> iv]

(***************************************************************************)
(* The four strategies.  Each gives [encrypted_data, metadata].            *)
(***************************************************************************)
encrypt_fernet(keys, version, now, us, r, data, category, data_id) ==
    [encrypted_data |-> B64Encode(FernetEncrypt(keys[category], now, r, data)),
     metadata |-> Metadata(data_id, "basic", category, now, us, version,
                           "fernet", None)]

\* A faulty layout: the tag after the ciphertext instead of before it.
GcmSealedTagLast(key, iv, data) ==
    iv \o GcmCiphertext(key, iv, data) \o GcmTag(key, iv, data)

\* iv + encryptor.tag + ciphertext
GcmSealed(key, iv, data) == iv \o GcmTag(key, iv, data) \o GcmCiphertext(key, iv, data)

\* A faulty layout: the nonce goes to the metadata only, not into the blob.
EncryptAesGcmDetachedNonce(keys, version, now, us, r, data, category, data_id) ==
    LET Sealed(key, iv) ==
            [encrypted_data |-> B64Encode(GcmTag(key, iv, data)
                                          \o GcmCiphertext(key, iv, data)),
             metadata |-> Metadata(data_id, "standard", category, now, us, version,
                                   "aes_256_gcm", B64Encode(iv))]
    IN  Sealed(keys[category], Urandom(r, "iv", NonceLen))

encrypt_aes_gcm(keys, version, now, us, r, data, category, data_id) ==
    LET Sealed(key, iv) ==
            [encrypted_data |-> B64Encode(GcmSealed(key, iv, data)),
             metadata |-> Metadata(data_id, "standard", category, now, us, version,
                                   "aes_256_gcm", B64Encode(iv))]
    IN  Sealed(keys[category], Urandom(r, "iv", NonceLen))

\* len(timestamp) || timestamp || sha256(data) || data
EnhancedData(now, us, data) ==
    LET timestamp == Utf8Encode(Isoformat(now, us))
    IN  ToBytes4(Len(timestamp)) \o timestamp \o DigestBytes(Sha256(data)) \o data

encrypt_aes_gcm_enhanced(keys, version, now, us, r, data, category, data_id) ==
    LET Sealed(key, iv, enhanced_data) ==
            [encrypted_data |-> B64Encode(GcmSealed(key, iv, enhanced_data)),
             metadata |-> Metadata(data_id, "high", category, now, us, version,
                                   "aes_256_gcm", B64Encode(iv))]
    IN  Sealed(keys[category], Urandom(r, "iv", NonceLen), EnhancedData(now, us, data))

encrypt_aes_rsa(keys, version, now, us, r, data, category, data_id) ==
    LET Components(aes_key, iv, pair) ==
            [encrypted_aes_key |-> B64Encode(RsaEncrypt(pair, r, aes_key)),
             encrypted_private_key |-> B64Encode(PemEncrypt(keys[category], pair)),
             iv |-> B64Encode(iv),
             auth_tag |-> B64Encode(GcmTag(aes_key, iv, data)),
             ciphertext |-> B64Encode(GcmCiphertext(aes_key, iv, data))]
    IN  [encrypted_data |->
            B64Encode(Chunk(<<"json", Components(<<"rnd", r, "aes_key">>,
                                                 Urandom(r, "iv", NonceLen),
                                                 RsaKeyPair(r))>>)),
         metadata |-> Metadata(data_id, "maximum", category, now, us, version,
                               "aes_256_gcm_rsa", None)]

(***************************************************************************)
(* The inverse strategies.  Each gives [ok, bytes, error]; ok = FALSE is   *)
(* an exception raised inside decrypt_data's try block.                    *)
(***************************************************************************)
Raised(error) == [ok |-> FALSE, bytes |-> <<>>, error |-> error]

Returned(bytes) == [ok |-> TRUE, bytes |-> bytes, error |-> "none"]

decrypt_fernet(keys, encrypted_data, category) ==
    LET Opened(plain) == IF ~plain.ok THEN Raised("InvalidToken")
                         ELSE Returned(plain.bytes)
        Decoded(decoded) ==
            IF ~decoded.ok THEN Raised("binascii.Error")
            ELSE Opened(FernetDecrypt(keys[category], decoded.bytes))
    IN  Decoded(B64Decode(encrypted_data))

\* A faulty HIGH branch: the data is split off, the hashes are not compared.
VerifyIntegritySkipped(decrypted_data, timestamp_len) ==
    Returned(SliceFrom(decrypted_data, 4 + timestamp_len + HashLen))

\* The HIGH branch of _decrypt_aes_gcm: split what was decrypted at the
\* length it starts with, compare the stored hash with the computed one.
VerifyIntegrity(decrypted_data, timestamp_len) ==
    LET Compare(integrity_hash, original_data) ==
            IF integrity_hash # DigestBytes(Sha256(original_data))
            THEN Raised("Data integrity check failed")
            ELSE Returned(original_data)
    IN  Compare(Slice(decrypted_data, 4 + timestamp_len, 4 + timestamp_len + HashLen),
                SliceFrom(decrypted_data, 4 + timestamp_len + HashLen))

decrypt_aes_gcm(keys, encrypted_data, metadata, category) ==
    LET Opened(plain) ==
            IF ~plain.ok THEN Raised("InvalidTag")
            ELSE IF metadata.encryption_level = "high"
                 THEN VerifyIntegrity(plain.bytes, IntFromBytes(Slice(plain.bytes, 0, 4)))
            ELSE Returned(plain.bytes)
        Split(encrypted_bytes) ==
            Opened(GcmDecrypt(keys[category],
                              Slice(encrypted_bytes, 0, NonceLen),
                              Slice(encrypted_bytes, NonceLen, NonceLen + TagLen),
                              SliceFrom(encrypted_bytes, NonceLen + TagLen)))
        Decoded(decoded) ==
            IF ~decoded.ok THEN Raised("binascii.Error") ELSE Split(decoded.bytes)
    IN  Decoded(B64Decode(encrypted_data))

decrypt_aes_rsa(keys, encrypted_data, metadata, category) ==
    LET Opened(plain) == IF ~plain.ok THEN Raised("InvalidTag")
                         ELSE Returned(plain.bytes)
        Parts(aes_key, iv, auth_tag, ciphertext) ==
            IF ~(iv.ok /\ auth_tag.ok /\ ciphertext.ok) THEN Raised("binascii.Error")
            ELSE Opened(GcmDecrypt(aes_key.secret, iv.bytes, auth_tag.bytes,
                                   ciphertext.bytes))
        Unwrapped(components, aes_key) ==
            IF ~aes_key.ok THEN Raised("ValueError: decryption failed")
            ELSE Parts(aes_key, B64Decode(components.iv), B64Decode(components.auth_tag),
                       B64Decode(components.ciphertext))
        Loaded(components, rsa_private_key, wrapped) ==
            IF ~rsa_private_key.ok THEN Raised("ValueError: bad decrypt")
            ELSE IF ~wrapped.ok THEN Raised("binascii.Error")
            ELSE Unwrapped(components, RsaDecrypt(rsa_private_key.pair, wrapped.bytes))
        Pem(components, pem) ==
            IF ~pem.ok THEN Raised("binascii.Error")
            ELSE Loaded(components, PemLoad(keys[category], pem.bytes),
                        B64Decode(components.encrypted_aes_key))
        Decoded(decoded) ==
            IF ~decoded.ok THEN Raised("binascii.Error")
            ELSE IF ~IsChunk(decoded.bytes, "json") THEN Raised("JSONDecodeError")
            ELSE Pem(decoded.bytes[1][2],
                     B64Decode(decoded.bytes[1][2].encrypted_private_key))
    IN  Decoded(B64Decode(encrypted_data))

(***************************************************************************)
(* encrypt_data / decrypt_data                                             *)
(***************************************************************************)
\* self.encryption_config: the algorithm id registered for each level.
encryption_config ==
    [level \in EncryptionLevel |->
        [algorithm |-> CASE level = "basic" -> "fernet"
                         [] level = "standard" -> "aes_256_gcm"
                         [] level = "high" -> "aes_256_gcm"
                         [] level = "maximum" -> "aes_256_gcm_rsa"]]

\* The dict of the except branch of encrypt_data.
EncryptFailed(error, data_id) ==
    [success |-> FALSE, error |-> error, data_id |-> data_id]

\* json.dumps for a dict or a list, str(data) otherwise.
Serialize(data) ==
    IF data[1] \in {"dict", "list"} THEN JsonDumps(data)
    ELSE [ok |-> TRUE, text |-> data[2]]

\* "if not data_id": None and the empty text count as no id.
GeneratedId(category, now, data_id) ==
    IF data_id = None \/ data_id = <<>>
    THEN CategoryChars(category) \o <<"_">> \o Strftime(now)
    ELSE data_id

encrypt_data(keys, version, now, us, r, data, category, level, data_id) ==
    LET Strategy(id, data_bytes) ==
            CASE level = "basic" ->
                    encrypt_fernet(keys, version, now, us, r, data_bytes, category, id)
              [] level = "standard" ->
                    encrypt_aes_gcm(keys, version, now, us, r, data_bytes, category, id)
              [] level = "high" ->
                    encrypt_aes_gcm_enhanced(keys, version, now, us, r, data_bytes,
                                             category, id)
              [] level = "maximum" ->
                    encrypt_aes_rsa(keys, version, now, us, r, data_bytes, category, id)
        Packed(id, out) ==
            [success |-> TRUE, data_id |-> id,
             encrypted_data |-> out.encrypted_data, metadata |-> out.metadata,
             encryption_level |-> level, category |-> category]
        Serialized(id, data_str) ==
            IF ~data_str.ok THEN EncryptFailed("TypeError", id)
            ELSE IF level \notin EncryptionLevel
                 THEN EncryptFailed("Unsupported encryption level", id)
            ELSE Packed(id, Strategy(id, Utf8Encode(data_str.text)))
    IN  IF category \notin DataCategory
        THEN IF data_id = None \/ data_id = <<>>
             THEN EncryptFailed("AttributeError", data_id)
             ELSE EncryptFailed("KeyError", data_id)
        ELSE Serialized(GeneratedId(category, now, data_id), Serialize(data))

\* A faulty selection: an algorithm id the service does not have falls back
\* to the AES-GCM strategy, and the enumerations are not consulted.
DecryptBytesWithDefault(keys, encrypted_data, metadata) ==
    CASE metadata.algorithm = "fernet" ->
            decrypt_fernet(keys, encrypted_data, metadata.data_category)
      [] metadata.algorithm = "aes_256_gcm_rsa" ->
            decrypt_aes_rsa(keys, encrypted_data, metadata, metadata.data_category)
      [] OTHER -> decrypt_aes_gcm(keys, encrypted_data, metadata, metadata.data_category)

\* The first half of decrypt_data: the bytes the selected strategy returns.
decrypt_bytes(keys, encrypted_data, metadata) ==
    LET category == metadata.data_category
        algorithm == metadata.algorithm
    IN  IF metadata.encryption_level \notin EncryptionLevel
        THEN Raised("ValueError: not a valid EncryptionLevel")
        ELSE IF category \notin DataCategory
        THEN Raised("ValueError: not a valid DataCategory")
        ELSE CASE algorithm = "fernet" -> decrypt_fernet(keys, encrypted_data, category)
               [] algorithm = "aes_256_gcm" ->
                     decrypt_aes_gcm(keys, encrypted_data, metadata, category)
               [] algorithm = "aes_256_gcm_rsa" ->
                     decrypt_aes_rsa(keys, encrypted_data, metadata, category)
               [] OTHER -> Raised("Unsupported decryption algorithm")

\* The second half: decode, then json.loads with the text as the fallback.
Deserialize(text) ==
    LET Loaded(parsed) == IF parsed.ok THEN parsed.val ELSE Str(text)
    IN  Loaded(JsonLoads(text))

\* The dict of the except branch of decrypt_data.
DecryptFailed(error) == [success |-> FALSE, error |-> error]

\* decrypt_data after the strategy has returned or raised ('decrypted_at',
\* the time of the call, is left out of the dict).
FinishDecrypt(decrypted, metadata) ==
    LET Decoded(data_str) ==
            IF ~data_str.ok THEN DecryptFailed("UnicodeDecodeError")
            ELSE [success |-> TRUE, data |-> Deserialize(data_str.text),
                  data_id |-> metadata.data_id]
    IN  IF ~decrypted.ok THEN DecryptFailed(decrypted.error)
        ELSE Decoded(Utf8Decode(decrypted.bytes))

decrypt_data(keys, encrypted_data, metadata) ==
    FinishDecrypt(decrypt_bytes(keys, encrypted_data, metadata), metadata)

(***************************************************************************)
(* encrypt_client_data / decrypt_client_data.  A dict is a function from   *)
(* its keys.                                                               *)
(***************************************************************************)
PolicyOrder == <<"bioData", "financialData", "economicContext", "objectives",
                 "distributionPreferences">>

PolicyFields == {PolicyOrder[i] : i \in 1..Len(PolicyOrder)}

PlainFields == {"clientId", "savedAt", "lastUpdated", "submittedBy"}

PolicyCategory(field) ==
    IF field = "financialData" THEN "financial_data" ELSE "personal_info"

PolicyLevel(field) ==
    CASE field = "bioData" -> "standard"
      [] field = "financialData" -> "high"
      [] OTHER -> "basic"

\* The text before the "_" of the data id.
PolicyPrefix(field) ==
    CASE field = "bioData" -> <<"b", "i", "o">>
      [] field = "financialData" -> <<"f", "i", "n", "a", "n", "c", "i", "a", "l">>
      [] field = "economicContext" ->
            <<"e", "c", "o", "n", "o", "m", "i", "c", "C", "o", "n", "t", "e", "x", "t">>
      [] field = "objectives" ->
            <<"o", "b", "j", "e", "c", "t", "i", "v", "e", "s">>
      [] field = "distributionPreferences" ->
            <<"d", "i", "s", "t", "r", "i", "b", "u", "t", "i", "o", "n",
              "P", "r", "e", "f", "e", "r", "e", "n", "c", "e", "s">>

\* client_data.get('clientId', 'unknown'), as the f-string prints it.
ClientIdText(client_data) ==
    IF "clientId" \in DOMAIN client_data THEN client_data["clientId"][2]
    ELSE <<"u", "n", "k", "n", "o", "w", "n">>

\* The encrypt_data call made for one policy field.
EncryptField(keys, version, now, us, r, client_data, field) ==
    encrypt_data(keys, version, now, us, <<r, field>>, client_data[field],
                 PolicyCategory(field), PolicyLevel(field),
                 PolicyPrefix(field) \o <<"_">> \o ClientIdText(client_data))

InOrder(order, S) == SelectSeq(order, LAMBDA f : f \in S)

\* A faulty variant: a policy field whose encryption failed is copied as it
\* came in.
EncryptClientDataKeepingFailed(keys, version, now, us, r, client_data) ==
    LET result == [f \in PolicyFields \cap DOMAIN client_data |->
                      EncryptField(keys, version, now, us, r, client_data, f)]
        done == {f \in DOMAIN result : result[f].success}
        kept == (PlainFields \cap DOMAIN client_data) \cup (DOMAIN result \ done)
    IN  [success |-> TRUE,
         encrypted_client_data |->
            [f \in done \cup kept \cup {"_encryption_metadata"} |->
                IF f = "_encryption_metadata" THEN [g \in done |-> result[g].metadata]
                ELSE IF f \in kept THEN client_data[f]
                ELSE result[f].encrypted_data],
         encryption_summary |->
            [encrypted_fields |-> InOrder(PolicyOrder, done),
             total_fields |-> Cardinality(done)]]

encrypt_client_data(keys, version, now, us, r, client_data) ==
    LET kept == PlainFields \cap DOMAIN client_data
        Built(result, done) ==
            [success |-> TRUE,
             encrypted_client_data |->
                [f \in done \cup kept \cup {"_encryption_metadata"} |->
                    IF f = "_encryption_metadata" THEN [g \in done |-> result[g].metadata]
                    ELSE IF f \in kept THEN client_data[f]
                    ELSE result[f].encrypted_data],
             encryption_summary |->
                [encrypted_fields |-> InOrder(PolicyOrder, done),
                 total_fields |-> Cardinality(done)]]
        Encrypted(result) == Built(result, {f \in DOMAIN result : result[f].success})
    IN  Encrypted([f \in PolicyFields \cap DOMAIN client_data |->
                      EncryptField(keys, version, now, us, r, client_data, f)])

\* The fields of encryption_metadata that are in the record, in dict order.
FieldsToDecrypt(encrypted_client_data) ==
    InOrder(PolicyOrder, DOMAIN encrypted_client_data["_encryption_metadata"]
                         \cap DOMAIN encrypted_client_data)

decrypt_client_data(keys, encrypted_client_data) ==
    LET encryption_metadata == encrypted_client_data["_encryption_metadata"]
        copied == (DOMAIN encrypted_client_data \ DOMAIN encryption_metadata)
                  \ {"_encryption_metadata"}
        Stopped(todo, result, failed) ==
            result[todo[CHOOSE i \in failed : \A j \in failed : i <= j]]
        Finished(result) ==
            [success |-> TRUE,
             decrypted_client_data |->
                [f \in DOMAIN result \cup copied |->
                    IF f \in copied THEN encrypted_client_data[f] ELSE result[f].data],
             decryption_summary |->
                [decrypted_fields |-> InOrder(PolicyOrder, DOMAIN encryption_metadata),
                 total_fields |-> Cardinality(DOMAIN encryption_metadata)]]
        Looped(todo, result, failed) ==
            IF failed # {} THEN Stopped(todo, result, failed) ELSE Finished(result)
        Decrypted(todo, result) ==
            Looped(todo, result, {i \in 1..Len(todo) : ~result[todo[i]].success})
        Fields(todo) ==
            Decrypted(todo,
                      [f \in {todo[i] : i \in 1..Len(todo)} |->
                          decrypt_data(keys, encrypted_client_data[f],
                                       encryption_metadata[f])])
    IN  Fields(FieldsToDecrypt(encrypted_client_data))

(***************************************************************************)
(* The callers' inputs.                                                    *)
(***************************************************************************)
PlainText == Str(<<"h", "i">>)
NumberText == Str(<<"4", "2">>)
SampleList == List(<<Num(<<"1">>), Str(<<"a">>)>>)
SampleDict == Dict(<< <<(<<"k">>), Str(<<"v">>)>> >>)
Unserializable == Dict(<< <<(<<"d">>), Obj("datetime")>> >>)
\* Text whose first four bytes read as the length 0.
LengthPrefixed == Str(<<"NUL", "NUL", "NUL", "NUL", "a", "b", "c">>)
EmptyText == Str(<<>>)

ValueOrder == <<PlainText, NumberText, SampleList, SampleDict>>

LevelOrder == <<"basic", "standard", "high", "maximum">>

IdOrder == <<None, <<"f", "1">>>>

\* "invalid_category": a str passed where a DataCategory member is expected.
InvalidCategory == "invalid_category"

\* The calls of encrypt_data: every category with every level, every value
\* with every category and with every level, with and without a data_id; a
\* category that is no member, and the empty text, at every level.
Calls == {[data |-> ValueOrder[((i + j) % Len(ValueOrder)) + 1],
           category |-> CategoryOrder[i],
           level |-> LevelOrder[j],
           data_id |-> IdOrder[(i % Len(IdOrder)) + 1]] :
             i \in 1..Len(CategoryOrder), j \in 1..Len(LevelOrder)}
         \cup {[data |-> Unserializable, category |-> "legal_documents",
                 level |-> "standard", data_id |-> None],
                [data |-> LengthPrefixed, category |-> "session_data",
                 level |-> "standard", data_id |-> None]}
         \cup {[data |-> PlainText, category |-> InvalidCategory,
                 level |-> LevelOrder[j], data_id |-> IdOrder[i]] :
                   i \in 1..Len(IdOrder), j \in 1..Len(LevelOrder)}
         \cup {[data |-> EmptyText, category |-> "system_config",
                 level |-> LevelOrder[j], data_id |-> None] : j \in 1..Len(LevelOrder)}
         \cup {[data |-> Str(DigestText), category |-> "authentication",
                 level |-> "high", data_id |-> None]}

\* The randomness one call draws is named by the call.
Draw == "draw"

MasterKeys == {"mk1", "mk2"}

ClientRecords ==
    { [f \in {"clientId", "bioData", "financialData", "objectives", "savedAt", "notes"} |->
          CASE f = "clientId" -> Str(<<"c", "7">>)
            [] f = "bioData" -> SampleDict
            [] f = "financialData" -> SampleList
            [] f = "objectives" -> PlainText
            [] f = "savedAt" -> Str(<<"t">>)
            [] f = "notes" -> Str(<<"n">>)],
      [f \in {"bioData", "economicContext", "submittedBy"} |->
          CASE f = "bioData" -> Unserializable
            [] f = "economicContext" -> NumberText
            [] f = "submittedBy" -> Str(<<"u">>)] }

(***************************************************************************)
(* What a caller, or whoever stores the ciphertext, can do to it before    *)
(* handing it back.                                                        *)
(***************************************************************************)
Junk == <<"junk">>

\* The canonical text of bytes ends in padding, and so has a character with
\* unused bits, when their number is no multiple of 3.  The length of a
\* stretch kept symbolic is not known: no such text is made for it.
HasSlack(bytes) ==
    /\ \A i \in 1..Len(bytes) : bytes[i][1] \notin {"fernet", "oaep", "pem", "json"}
    /\ Len(bytes) % 3 # 0

SlackForm(text) == IF HasSlack(text[2]) THEN <<"b64", text[2], "slack">> ELSE text

ReplaceByte(bytes, pos) ==
    IF pos <= Len(bytes) THEN [bytes EXCEPT ![pos] = Junk] ELSE bytes

OnBytes(text, pos) == <<"b64", ReplaceByte(text[2], pos), text[3]>>

Components == {"encrypted_aes_key", "encrypted_private_key", "iv", "auth_tag",
               "ciphertext"}

IsEnvelope(text) == IsChunk(text[2], "json")

OnComponent(text, name, form) ==
    LET components == text[2][1][2]
        changed == IF form = "junk" THEN OnBytes(components[name], 1)
                   ELSE SlackForm(components[name])
    IN  IF IsEnvelope(text)
        THEN <<"b64", Chunk(<<"json", [components EXCEPT ![name] = changed]>>), text[3]>>
        ELSE text

\* A tamper is [part, how]: part is "blob" (the whole base64 text) or one of
\* the five components of a MAXIMUM envelope.
NoTamper == [part |-> "blob", how |-> "none"]

Tampers == [part : {"blob"},
            how : {"none", "slack", "badpad", "nonce", "tag", "payload", "truncate"}]
           \cup [part : Components, how : {"junk", "slack"}]

Tamper(t, text) ==
    IF t.part = "blob"
    THEN CASE t.how = "none" -> text
           [] t.how = "slack" -> SlackForm(text)
           [] t.how = "badpad" -> <<"b64", text[2], "badpad">>
           [] t.how = "nonce" -> OnBytes(text, 1)
           [] t.how = "tag" -> OnBytes(text, NonceLen + 1)
           [] t.how = "payload" -> OnBytes(text, NonceLen + TagLen + 1)
           [] t.how = "truncate" ->
                 <<"b64", Slice(text[2], 0, Len(text[2]) - 1), text[3]>>
    ELSE OnComponent(text, t.part, t.how)

\* What is done to the metadata dict before it is handed back: nothing, the
\* level rewritten, the algorithm rewritten to an id the service does not
\* have, or that together with a level the enumeration does not have; the
\* category, the key version or the algorithm rewritten to another one.
MetaTampers == {"none", "as_high", "unknown_algorithm", "unknown_everything",
                "as_standard", "other_category", "other_version", "other_algorithm"}

UnknownAlgorithms == {"unknown_algorithm", "unknown_everything"}

MetaTamper(m, metadata) ==
    CASE m = "as_high" -> [metadata EXCEPT !.encryption_level = "high"]
      [] m = "unknown_algorithm" -> [metadata EXCEPT !.algorithm = "rot13"]
      [] m = "unknown_everything" ->
            [metadata EXCEPT !.algorithm = "rot13", !.encryption_level = "bogus"]
      [] m = "as_standard" -> [metadata EXCEPT !.encryption_level = "standard"]
      [] m = "other_category" ->
            [metadata EXCEPT !.data_category = IF @ = "personal_info"
                                               THEN "financial_data"
                                               ELSE "personal_info"]
      [] m = "other_version" -> [metadata EXCEPT !.key_version = <<"v", "0">>]
      [] m = "other_algorithm" ->
            [metadata EXCEPT !.algorithm = IF @ = "fernet" THEN "aes_256_gcm"
                                           ELSE "fernet"]
      [] OTHER -> metadata

(***************************************************************************)
(* The state machine.  pc is the place of the thread that runs             *)
(* rotate_keys; the other operations are one step each.                    *)
(***************************************************************************)
\* self.master_key before __init__ has set it.
NoKey == "no_key"

\* No second instance is being started on the key file.
NoPeer == [state |-> "none", master_key |-> NoKey]

Idle == [state |-> "idle", done |-> 0, old_version |-> None, old_keys |-> None,
         key |-> None, peer |-> NoPeer]

Nothing == [kind |-> "nothing", input |-> None, ret |-> None, rotated |-> FALSE]

\* outcome says how the operation ended: it returned ret to the caller, or
\* an exception left it.  Every public operation catches what its body
\* raises and returns a dict instead.
NoResult == [op |-> "none", ret |-> None, tamper |-> NoTamper, mtamper |-> "none",
             raw |-> None, outcome |-> "none"]

Result(op, ret) == [op |-> op, ret |-> ret, tamper |-> NoTamper, mtamper |-> "none",
                    raw |-> None, outcome |-> "returned"]

(***************************************************************************)
(* The master key file.  exists, content, mode, readable are the file as   *)
(* the operating system has it, dir_writable its directory; the other      *)
(* fields record what happened on this path: original is the content found *)
(* before the first start ("absent" when there was no file), generated     *)
(* counts the keys generated, writes the writes made to the file, secrets  *)
(* holds the master keys that completed initialisations returned, and      *)
(* interrupted says that a process ended inside an initialisation.         *)
(***************************************************************************)
OwnerOnly == "0o600"

DefaultMode == "umask"

\* What f.read() gives for a file that was created and never written.
EmptyContent == "empty"

\* What f.read() gives for a file holding only the start of a key.
TruncatedContent == "truncated"

\* The key file of a service that is running on master key mk.
StoredKeyFile(mk) ==
    [exists |-> TRUE, content |-> mk, mode |-> OwnerOnly, readable |-> TRUE,
     dir_writable |-> TRUE, original |-> mk, generated |-> 0, writes |-> 0,
     inits |-> 1, secrets |-> {mk}, interrupted |-> FALSE]

\* __init__: the master key, key_version = "v1.0", every category's key.
Init ==
    /\ master_key \in MasterKeys
    /\ key_version = InitialVersion
    /\ data_keys = [c \in DataCategory |->
                       derive_category_key(master_key, InitialVersion, c)]
    /\ clock = 0
    /\ key_file = StoredKeyFile(master_key)
    /\ pc = Idle
    /\ held = Nothing
    /\ res = NoResult

\* A second passes.
Tick ==
    /\ clock < MaxClock
    /\ clock' = clock + 1
    /\ UNCHANGED <<master_key, key_version, data_keys, pc, held, res, key_file>>

\* A faulty encrypt_data: it moves the service to a new key version.
EncryptDataAndRestamp(call, us) ==
    /\ pc.state = "idle"
    /\ held.kind = "nothing"
    /\ call.level = "high" \/ us = 0
    /\ res' = [Result("encrypt_data",
                      encrypt_data(data_keys, key_version, clock, us, Draw, call.data,
                                   call.category, call.level, call.data_id))
               EXCEPT !.raw = call]
    /\ key_version' = RotatedVersion(clock)
    /\ UNCHANGED <<master_key, data_keys, clock, pc, held, key_file>>

\* The caller encrypts one value and keeps the artifact.
EncryptData(call, us) ==
    /\ pc.state \in {"idle", "rotating", "derived"}
    /\ held.kind = "nothing"
    /\ call.level = "high" \/ us = 0
    /\ LET Return(ret) ==
               /\ res' = [Result("encrypt_data", ret) EXCEPT !.raw = call]
               /\ held' = IF ret.success
                          THEN [kind |-> "artifact", input |-> call.data, ret |-> ret,
                                rotated |-> FALSE]
                          ELSE held
       IN  Return(encrypt_data(data_keys, key_version, clock, us, Draw, call.data,
                               call.category, call.level, call.data_id))
    /\ UNCHANGED <<master_key, key_version, data_keys, clock, pc, key_file>>

\* os.urandom and Fernet's IV on a second call: another value.
NextDraw == "draw2"

\* encrypt_data once more, of the value, category and level of the held
\* artifact, with no data_id given; the first artifact stays held.
EncryptAgain(us) ==
    /\ pc.state = "idle"
    /\ held.kind = "artifact"
    /\ held.ret.encryption_level = "high" \/ us = 0
    /\ LET Return(call) ==
               res' = [Result("encrypt_data",
                              encrypt_data(data_keys, key_version, clock, us, NextDraw,
                                           call.data, call.category, call.level,
                                           call.data_id))
                       EXCEPT !.raw = call]
       IN  Return([data |-> held.input, category |-> held.ret.category,
                   level |-> held.ret.encryption_level, data_id |-> None])
    /\ UNCHANGED <<master_key, key_version, data_keys, clock, pc, held, key_file>>

\* decrypt_data of the held artifact, as stored or changed on the way.
DecryptData(t, m) ==
    /\ pc.state = "idle"
    /\ held.kind = "artifact"
    /\ \/ t = NoTamper
       \/ m = "none"
       \/ m = "unknown_algorithm"
    /\ t = NoTamper \/ Tamper(t, held.ret.encrypted_data) # held.ret.encrypted_data
    /\ m = "none" \/ MetaTamper(m, held.ret.metadata) # held.ret.metadata
    /\ LET Return(metadata, raw) ==
               res' = [op |-> "decrypt_data",
                       ret |-> FinishDecrypt(raw, metadata),
                       tamper |-> t,
                       mtamper |-> m,
                       raw |-> raw,
                       outcome |-> "returned"]
           Call(encrypted_data, metadata) ==
               Return(metadata, decrypt_bytes(data_keys, encrypted_data, metadata))
       IN  Call(Tamper(t, held.ret.encrypted_data), MetaTamper(m, held.ret.metadata))
    /\ UNCHANGED <<master_key, key_version, data_keys, clock, pc, held, key_file>>

\* A faulty return: the copy of the old keys goes out with the versions.
RotateResultWithOldKeys(old_version, new_version, old_keys) ==
    [success |-> TRUE, old_version |-> old_version, new_version |-> new_version,
     message |-> "Keys rotated successfully. Old encrypted data can still be decrypted.",
     old_keys |-> old_keys]

\* The dict rotate_keys returns ('rotated_at', the time of the call, is left
\* out); old_keys, the copy of the keys before the rotation, stays local.
RotateResult(old_version, new_version, old_keys) ==
    [success |-> TRUE, old_version |-> old_version, new_version |-> new_version,
     message |-> "Keys rotated successfully. Old encrypted data can still be decrypted."]

\* rotate_keys, as one step.
RotateKeys ==
    /\ pc.state \in {"idle", "rotating", "derived"}
    /\ key_version' = RotatedVersion(clock)
    /\ data_keys' = initialize_category_keys(data_keys, master_key, key_version')
    /\ held' = IF held.kind = "nothing" THEN held ELSE [held EXCEPT !.rotated = TRUE]
    /\ res' = [Result("rotate_keys", RotateResult(key_version, key_version', data_keys))
               EXCEPT !.raw = data_keys]
    /\ UNCHANGED <<master_key, clock, pc, key_file>>

\* rotate_keys, lines 582-586: the new version, the copy of the keys.
RotateBegin ==
    /\ pc.state = "idle"
    /\ key_version' = RotatedVersion(clock)
    /\ pc' = [state |-> "rotating", done |-> 0, old_version |-> key_version,
              old_keys |-> data_keys, key |-> None, peer |-> pc.peer]
    /\ held' = IF held.kind = "nothing" THEN held ELSE [held EXCEPT !.rotated = TRUE]
    /\ res' = NoResult
    /\ UNCHANGED <<master_key, data_keys, clock, key_file>>

\* One turn of the loop of _initialize_category_keys.
RotateStep ==
    /\ pc.state = "rotating"
    /\ pc.done < Len(CategoryOrder)
    /\ data_keys' = InitializeUpTo(data_keys, master_key, key_version, pc.done + 1)
    /\ pc' = [pc EXCEPT !.done = pc.done + 1]
    /\ UNCHANGED <<master_key, key_version, clock, held, res, key_file>>

\* One turn of the loop in two steps, as another thread can see it: first
\* _derive_category_key reads self.key_version and computes the key,
RotateDerive ==
    /\ pc.state = "rotating"
    /\ pc.done < Len(CategoryOrder)
    /\ pc' = [pc EXCEPT !.state = "derived",
                        !.key = derive_category_key(master_key, key_version,
                                                    CategoryOrder[pc.done + 1])]
    /\ UNCHANGED <<master_key, key_version, data_keys, clock, held, res, key_file>>

\* then self.data_keys[category] = key.
RotateStore ==
    /\ pc.state = "derived"
    /\ data_keys' = [data_keys EXCEPT ![CategoryOrder[pc.done + 1]] = pc.key]
    /\ pc' = [pc EXCEPT !.state = "rotating", !.done = pc.done + 1, !.key = None]
    /\ UNCHANGED <<master_key, key_version, clock, held, res, key_file>>

\* A derivation raises inside the loop: the except branch of rotate_keys.
RotateFails ==
    /\ pc.state = "rotating"
    /\ pc.done < Len(CategoryOrder)
    /\ res' = [Result("rotate_keys", [success |-> FALSE, error |-> "MemoryError"])
               EXCEPT !.raw = [old_version |-> pc.old_version, old_keys |-> pc.old_keys]]
    /\ pc' = Idle
    /\ UNCHANGED <<master_key, key_version, data_keys, clock, held, key_file>>

\* rotate_keys returns.
RotateReturn ==
    /\ pc.state = "rotating"
    /\ pc.done = Len(CategoryOrder)
    /\ res' = [Result("rotate_keys",
                      RotateResult(pc.old_version, key_version, pc.old_keys))
               EXCEPT !.raw = pc.old_keys]
    /\ pc' = Idle
    /\ UNCHANGED <<master_key, key_version, data_keys, clock, held, key_file>>

\* A faulty status: the version the service started with.
StatusAtInitialVersion(keys, version, file) ==
    [encryption_available |-> TRUE,
     key_version |-> InitialVersion,
     supported_levels |-> LevelOrder,
     supported_categories |-> CategoryOrder,
     master_key_exists |-> file.exists,
     keys_initialized |-> Cardinality(DOMAIN keys) = Cardinality(DataCategory)]

\* The dict of get_encryption_status ('status_timestamp', the time of the
\* call, is left out).
get_encryption_status(keys, version, file) ==
    [encryption_available |-> TRUE,
     key_version |-> version,
     supported_levels |-> LevelOrder,
     supported_categories |-> CategoryOrder,
     master_key_exists |-> file.exists,
     keys_initialized |-> Cardinality(DOMAIN keys) = Cardinality(DataCategory)]

GetEncryptionStatus ==
    /\ pc.state = "idle"
    /\ res' = Result("get_encryption_status",
                     get_encryption_status(data_keys, key_version, key_file))
    /\ UNCHANGED <<master_key, key_version, data_keys, clock, pc, held, key_file>>

\* The caller encrypts one record and keeps the result.
EncryptClientData(client_data, us) ==
    /\ pc.state = "idle"
    /\ held.kind = "nothing"
    /\ LET Return(ret) ==
               /\ res' = Result("encrypt_client_data", ret)
               /\ held' = [kind |-> "record", input |-> client_data, ret |-> ret,
                           rotated |-> FALSE]
       IN  Return(encrypt_client_data(data_keys, key_version, clock, us, Draw,
                                      client_data))
    /\ UNCHANGED <<master_key, key_version, data_keys, clock, pc, key_file>>

\* The record with the ciphertext of field f changed as t says.
TamperField(record, f, t) ==
    IF f \in DOMAIN record THEN [record EXCEPT ![f] = Tamper(t, record[f])] ELSE record

\* What is done to a stored record before it is handed back: nothing, or
\* one encrypted field changed.
FieldTampers == {NoTamper, [part |-> "blob", how |-> "nonce"],
                 [part |-> "blob", how |-> "slack"]}

NoField == "no_field"

\* decrypt_client_data of the held record, as stored (f = NoField) or with
\* the ciphertext of field f changed on the way.
DecryptClientData(f, t) ==
    /\ pc.state = "idle"
    /\ held.kind = "record"
    /\ (t = NoTamper) <=> (f = NoField)
    /\ f = NoField \/ f \in DOMAIN held.ret.encrypted_client_data["_encryption_metadata"]
    /\ f = NoField \/ TamperField(held.ret.encrypted_client_data, f, t)
                          # held.ret.encrypted_client_data
    /\ LET Call(record) ==
               res' = [op |-> "decrypt_client_data",
                       ret |-> decrypt_client_data(data_keys, record),
                       tamper |-> t,
                       mtamper |-> f,
                       raw |-> record,
                       outcome |-> "returned"]
       IN  Call(TamperField(held.ret.encrypted_client_data, f, t))
    /\ UNCHANGED <<master_key, key_version, data_keys, clock, pc, held, key_file>>

Next ==
    \/ Tick
    \/ \E call \in Calls, us \in Micros : EncryptData(call, us)
    \/ \E t \in Tampers, m \in {"none", "as_high"} : DecryptData(t, m)
    \/ RotateKeys
    \/ \E client_data \in ClientRecords, us \in Micros : EncryptClientData(client_data, us)
    \/ \E f \in PolicyFields \cup {NoField}, t \in FieldTampers : DecryptClientData(f, t)
    \/ GetEncryptionStatus

Spec == Init /\ [][Next]_vars

\* decrypt_data of artifacts whose metadata is not the metadata they were
\* returned with.
NextForeign ==
    \/ Tick
    \/ \E call \in Calls, us \in Micros : EncryptData(call, us)
    \/ \E t \in Tampers, m \in MetaTampers \ {"none"} : DecryptData(t, m)
    \/ RotateKeys

SpecForeign == Init /\ [][NextForeign]_vars

\* encrypt_data called more than once.
NextTwice ==
    \/ Tick
    \/ \E call \in Calls, us \in Micros : EncryptData(call, us)
    \/ \E us \in Micros : EncryptAgain(us)
    \/ RotateKeys

SpecTwice == Init /\ [][NextTwice]_vars

\* rotate_keys step by step (with the clock), to see the states inside it.
NextSteps ==
    \/ Tick
    \/ RotateBegin
    \/ RotateStep
    \/ RotateFails
    \/ RotateReturn

SpecSteps == Init /\ [][NextSteps]_vars

\* rotate_keys in one thread, step by step, while another thread calls
\* rotate_keys.
NextRace ==
    \/ Tick
    \/ RotateBegin
    \/ RotateDerive
    \/ RotateStore
    \/ RotateReturn
    \/ RotateKeys

SpecRace == Init /\ [][NextRace]_vars

(***************************************************************************)
(* Starting the service: the module-level "encryption_service =            *)
(* EncryptionService()" and, inside __init__, _get_or_create_master_key.   *)
(* pc.state is "unstarted" before the module is imported, "generated",     *)
(* "opened", "written" inside the branch that creates the key file,        *)
(* "idle" once __init__ has returned and "absent" once the module-level    *)
(* except branch has set encryption_service = None.                        *)
(***************************************************************************)
\* Fernet.generate_key(): the n-th key generated on this path.
GeneratedKey(n) == <<"gen1", "gen2", "gen3", "gen4">>[n]

\* with open(path, 'rb') as f: return f.read()
ReadKeyFile(file) == file.content

\* open(path, 'wb'): the file is there, empty; a new file has the mode the
\* umask gives, a file that was there keeps its mode.
CreatedFile(file) ==
    [file EXCEPT !.exists = TRUE, !.content = EmptyContent,
                 !.mode = IF file.exists THEN file.mode ELSE DefaultMode,
                 !.readable = TRUE]

\* f.write(master_key), flushed when the with block closes the file.
WrittenFile(file, key) == [file EXCEPT !.content = key, !.writes = @ + 1]

\* A faulty last step: the file keeps the mode it was created with.
UnprotectedFile(file) == file

\* os.chmod(self.master_key_path, 0o600)
ProtectedFile(file) == [file EXCEPT !.mode = OwnerOnly]

\* The key files a first start can find: none (in a directory that can or
\* cannot be written), or one holding a key, nothing, or the start of a key,
\* that can or cannot be read.
InitialKeyFiles ==
    {[exists |-> FALSE, content |-> EmptyContent, mode |-> DefaultMode,
      readable |-> TRUE, dir_writable |-> w, original |-> "absent", generated |-> 0,
      writes |-> 0, inits |-> 0, secrets |-> {}, interrupted |-> FALSE] : w \in BOOLEAN}
    \cup {[exists |-> TRUE, content |-> c, mode |-> OwnerOnly,
            readable |-> r, dir_writable |-> TRUE, original |-> c, generated |-> 0,
            writes |-> 0, inits |-> 0, secrets |-> {}, interrupted |-> FALSE] :
              c \in {"mk1", EmptyContent, TruncatedContent}, r \in BOOLEAN}

Unstarted == [Idle EXCEPT !.state = "unstarted"]

\* Before the module is imported.
InitBoot ==
    /\ master_key = NoKey
    /\ key_version = <<>>
    /\ data_keys = <<>>
    /\ clock = 0
    /\ key_file \in InitialKeyFiles
    /\ pc = Unstarted
    /\ held = Nothing
    /\ res = NoResult

\* __init__ from the return of _get_or_create_master_key on: the version,
\* the category keys; the module-level instance is set.
FinishInit(mk, file) ==
    /\ master_key' = mk
    /\ key_version' = InitialVersion
    /\ data_keys' = [c \in DataCategory |-> derive_category_key(mk, InitialVersion, c)]
    /\ key_file' = [file EXCEPT !.inits = @ + 1, !.secrets = @ \cup {mk}]
    /\ pc' = [pc EXCEPT !.state = "idle"]
    /\ res' = Result("startup", [success |-> TRUE])

\* The except branches: _get_or_create_master_key logs and re-raises, the
\* module-level code logs and sets encryption_service = None.
FailInit(error) ==
    /\ pc' = [pc EXCEPT !.state = "absent"]
    /\ res' = [Result("startup", [success |-> FALSE, error |-> error])
               EXCEPT !.outcome = "logged"]

\* The key file exists and can be read: its content is the master key.
LoadMasterKey ==
    /\ pc.state = "unstarted"
    /\ key_file.inits < MaxInits
    /\ key_file.exists /\ key_file.readable
    /\ FinishInit(ReadKeyFile(key_file), key_file)
    /\ UNCHANGED <<clock, held>>

\* The key file exists and open() raises.
LoadFails ==
    /\ pc.state = "unstarted"
    /\ key_file.exists /\ ~key_file.readable
    /\ FailInit("PermissionError")
    /\ UNCHANGED <<master_key, key_version, data_keys, clock, key_file, held>>

\* No key file: a key is generated (it is a local variable so far).
GenerateMasterKey ==
    /\ pc.state = "unstarted"
    /\ key_file.inits < MaxInits
    /\ ~key_file.exists
    /\ key_file.generated < MaxGenerated
    /\ master_key' = GeneratedKey(key_file.generated + 1)
    /\ key_file' = [key_file EXCEPT !.generated = @ + 1]
    /\ pc' = [pc EXCEPT !.state = "generated"]
    /\ UNCHANGED <<key_version, data_keys, clock, held, res>>

\* os.chmod of the directory and open(path, 'wb').
CreateKeyFile ==
    /\ pc.state = "generated"
    /\ IF key_file.dir_writable
       THEN /\ key_file' = CreatedFile(key_file)
            /\ pc' = [pc EXCEPT !.state = "opened"]
            /\ UNCHANGED <<master_key, res>>
       ELSE /\ FailInit("PermissionError")
            /\ master_key' = NoKey
            /\ UNCHANGED key_file
    /\ UNCHANGED <<key_version, data_keys, clock, held>>

WriteKeyFile ==
    /\ pc.state = "opened"
    /\ key_file' = WrittenFile(key_file, master_key)
    /\ pc' = [pc EXCEPT !.state = "written"]
    /\ UNCHANGED <<master_key, key_version, data_keys, clock, held, res>>

\* os.chmod(path, 0o600), return master_key, and the rest of __init__.
ProtectKeyFile ==
    /\ pc.state = "written"
    /\ FinishInit(master_key, ProtectedFile(key_file))
    /\ UNCHANGED <<clock, held>>

\* What is in memory is gone; the file stays as it is, and so does what the
\* caller has stored.
ProcessEnds(interrupted) ==
    /\ master_key' = NoKey
    /\ key_version' = <<>>
    /\ data_keys' = <<>>
    /\ key_file' = [key_file EXCEPT !.interrupted = @ \/ interrupted]
    /\ pc' = Unstarted
    /\ res' = NoResult
    /\ UNCHANGED <<clock, held>>

\* The process is killed inside the branch that creates the key file.
Crash ==
    /\ pc.state \in {"generated", "opened", "written"}
    /\ ProcessEnds(TRUE)

\* The process ends after a completed initialisation.
Shutdown ==
    /\ pc.state = "idle"
    /\ ProcessEnds(FALSE)

NextBoot ==
    \/ LoadMasterKey
    \/ LoadFails
    \/ GenerateMasterKey
    \/ CreateKeyFile
    \/ WriteKeyFile
    \/ ProtectKeyFile
    \/ Crash
    \/ Shutdown
    \/ Tick
    \/ RotateKeys
    \/ GetEncryptionStatus

SpecBoot == InitBoot /\ [][NextBoot]_vars

(***************************************************************************)
(* Two instances started at the same time on the same path (two worker     *)
(* processes importing the module) while there is no key file.  The first  *)
(* is the one above; pc.peer.state is the place of the second in           *)
(* _get_or_create_master_key and pc.peer.master_key its self.master_key.   *)
(***************************************************************************)
InitBootRace ==
    /\ master_key = NoKey
    /\ key_version = <<>>
    /\ data_keys = <<>>
    /\ clock = 0
    /\ key_file \in {file \in InitialKeyFiles : ~file.exists}
    /\ pc = [Unstarted EXCEPT !.peer.state = "unstarted"]
    /\ held = Nothing
    /\ res = NoResult

\* The second instance finds the key file and reads it.
PeerLoads ==
    /\ pc.peer.state = "unstarted"
    /\ key_file.inits < MaxInits
    /\ key_file.exists /\ key_file.readable
    /\ pc' = [pc EXCEPT !.peer = [state |-> "idle", master_key |-> ReadKeyFile(key_file)]]
    /\ key_file' = [key_file EXCEPT !.inits = @ + 1,
                                    !.secrets = @ \cup {ReadKeyFile(key_file)}]
    /\ UNCHANGED <<master_key, key_version, data_keys, clock, held, res>>

\* The second instance finds no key file and generates a key.
PeerGenerates ==
    /\ pc.peer.state = "unstarted"
    /\ key_file.inits < MaxInits
    /\ ~key_file.exists
    /\ key_file.generated < MaxGenerated
    /\ pc' = [pc EXCEPT !.peer = [state |-> "generated",
                                  master_key |-> GeneratedKey(key_file.generated + 1)]]
    /\ key_file' = [key_file EXCEPT !.generated = @ + 1]
    /\ UNCHANGED <<master_key, key_version, data_keys, clock, held, res>>

\* os.chmod of the directory and open(path, 'wb') in the second instance.
PeerCreates ==
    /\ pc.peer.state = "generated"
    /\ IF key_file.dir_writable
       THEN /\ key_file' = CreatedFile(key_file)
            /\ pc' = [pc EXCEPT !.peer.state = "opened"]
       ELSE /\ pc' = [pc EXCEPT !.peer = [state |-> "absent", master_key |-> NoKey]]
            /\ UNCHANGED key_file
    /\ UNCHANGED <<master_key, key_version, data_keys, clock, held, res>>

\* f.write(master_key) and the close of the file in the second instance.
PeerWrites ==
    /\ pc.peer.state = "opened"
    /\ key_file' = WrittenFile(key_file, pc.peer.master_key)
    /\ pc' = [pc EXCEPT !.peer.state = "written"]
    /\ UNCHANGED <<master_key, key_version, data_keys, clock, held, res>>

\* os.chmod(path, 0o600), return master_key, and the rest of __init__ in
\* the second instance.
PeerProtects ==
    /\ pc.peer.state = "written"
    /\ key_file' = [ProtectedFile(key_file) EXCEPT
                       !.inits = @ + 1, !.secrets = @ \cup {pc.peer.master_key}]
    /\ pc' = [pc EXCEPT !.peer.state = "idle"]
    /\ UNCHANGED <<master_key, key_version, data_keys, clock, held, res>>

NextBootRace ==
    \/ Tick
    \/ LoadMasterKey
    \/ GenerateMasterKey
    \/ CreateKeyFile
    \/ WriteKeyFile
    \/ ProtectKeyFile
    \/ PeerLoads
    \/ PeerGenerates
    \/ PeerCreates
    \/ PeerWrites
    \/ PeerProtects

SpecBootRace == InitBootRace /\ [][NextBootRace]_vars

\* The life of the artifacts: encrypt_data beside a rotation that is under
\* way, and decrypt_data of what is stored, also by a later instance
\* started on the same key file.
NextLife ==
    \/ Tick
    \/ \E call \in Calls, us \in Micros : EncryptData(call, us)
    \/ DecryptData(NoTamper, "none")
    \/ RotateBegin
    \/ RotateStep
    \/ RotateReturn
    \/ Shutdown
    \/ LoadMasterKey

SpecLife == Init /\ [][NextLife]_vars

(***************************************************************************)
(* Properties.  In a state with res.op = "decrypt_data", held is the       *)
(* artifact that was decrypted, res.tamper and res.mtamper say what was    *)
(* done to its ciphertext and metadata, res.raw is what the strategy gave  *)
(* back and held.rotated says whether rotate_keys ran since encrypt_data.  *)
(***************************************************************************)

\* C1: with no rotate_keys call between the two calls, decrypt_data of the
\* encrypted_data a successful encrypt_data returned, with the metadata it
\* returned, reports success and recovers exactly the bytes that were
\* encrypted, whatever the level and the category.
C1_RoundTrip ==
    (/\ res.op = "decrypt_data"
     /\ res.tamper = NoTamper
     /\ res.mtamper = "none"
     /\ ~held.rotated)
    => /\ res.ret.success
       /\ res.raw.ok
       /\ res.raw.bytes = Utf8Encode(Serialize(held.input).text)

\* A HIGH artifact of a dict, decrypted as returned with no rotation.
C1_Witness ==
    /\ res.op = "decrypt_data"
    /\ res.tamper = NoTamper
    /\ res.mtamper = "none"
    /\ ~held.rotated
    /\ held.ret.encryption_level = "high"
    /\ held.input = SampleDict
    /\ res.ret.success

\* C2: after rotate_keys calls, decrypt_data of an artifact encrypted before
\* them, with the artifact's own metadata, still returns success with the
\* original data.
C2_DecryptableAfterRotation ==
    (/\ res.op = "decrypt_data"
     /\ res.tamper = NoTamper
     /\ res.mtamper = "none"
     /\ held.rotated)
    => /\ res.ret.success
       /\ res.raw.bytes = Utf8Encode(Serialize(held.input).text)

\* C3: for a STANDARD, HIGH or MAXIMUM artifact, decrypt_data of a
\* ciphertext that differs from the produced one, with the original
\* metadata, returns a failure and never success with data.
C3_ChangedCiphertextFails ==
    (/\ res.op = "decrypt_data"
     /\ res.tamper # NoTamper
     /\ res.mtamper = "none"
     /\ held.ret.encryption_level \in {"standard", "high", "maximum"})
    => ~res.ret.success

\* C4: every field of the input record that the policy does not encrypt is
\* in the output record of encrypt_client_data, with the input's value.
C4_UncoveredFieldsPassThrough ==
    res.op = "encrypt_client_data"
    => \A f \in DOMAIN held.input \ PolicyFields :
           /\ f \in DOMAIN res.ret.encrypted_client_data
           /\ res.ret.encrypted_client_data[f] = held.input[f]

\* C5: when exactly one encrypted field of the record given to
\* decrypt_client_data fails to decrypt and the others are intact, the
\* result still carries the values of all the other fields.
C5_FieldFailureIsolated ==
    LET record == res.raw
        metadata == record["_encryption_metadata"]
        failing == {f \in DOMAIN metadata :
                       ~decrypt_data(data_keys, record[f], metadata[f]).success}
    IN  (/\ res.op = "decrypt_client_data"
         /\ Cardinality(DOMAIN metadata) > 1
         /\ Cardinality(failing) = 1)
        => /\ "decrypted_client_data" \in DOMAIN res.ret
           /\ (DOMAIN record \ (failing \cup {"_encryption_metadata"}))
                 \subseteq DOMAIN res.ret.decrypted_client_data

\* C6: decrypt_data of a successful encrypt_data(v, category, level) returns
\* data equal to v and of v's type, for v a string (whatever its text), a
\* dict or a list.
C6_TypePreserved ==
    (/\ res.op = "decrypt_data"
     /\ res.tamper = NoTamper
     /\ res.mtamper = "none"
     /\ ~held.rotated)
    => /\ res.ret.success
       /\ res.ret.data = held.input

\* C7: in every state after initialisation, also part-way through a
\* rotation, the working keys of two distinct categories differ, and the
\* salt inputs of two distinct categories differ for the same or different
\* key versions.
C7_CategoryKeysDistinct ==
    \A c1, c2 \in DataCategory :
        c1 # c2 =>
            /\ data_keys[c1] # data_keys[c2]
            /\ \A v1, v2 \in {InitialVersion, key_version}
                             \cup {RotatedVersion(t) : t \in 0..MaxClock} :
                   SaltInput(c1, v1) # SaltInput(c2, v2)

\* Half-way through the second rotation: three categories hold keys of the
\* new version, three still hold keys of the previous rotation.
C7_Witness ==
    /\ pc.state = "rotating"
    /\ pc.done = 3
    /\ pc.old_version # InitialVersion
    /\ pc.old_version # key_version

\* C8: when the ciphertext handled at HIGH level passes the AEAD check but
\* the 32 bytes at the place of the embedded hash are not the SHA-256 of the
\* bytes after them (also when the length field points past the end),
\* decrypt_data returns the integrity failure and no data.
C8_IntegrityMismatchFails ==
    LET decoded == B64Decode(Tamper(res.tamper, held.ret.encrypted_data))
        plain == GcmDecrypt(data_keys[held.ret.category],
                            Slice(decoded.bytes, 0, NonceLen),
                            Slice(decoded.bytes, NonceLen, NonceLen + TagLen),
                            SliceFrom(decoded.bytes, NonceLen + TagLen))
        timestamp_len == IntFromBytes(Slice(plain.bytes, 0, 4))
        stored == Slice(plain.bytes, 4 + timestamp_len, 4 + timestamp_len + HashLen)
        original == SliceFrom(plain.bytes, 4 + timestamp_len + HashLen)
    IN  (/\ res.op = "decrypt_data"
         /\ held.ret.metadata.algorithm = "aes_256_gcm"
         /\ res.mtamper = "as_high" \/ held.ret.encryption_level = "high"
         /\ decoded.ok
         /\ plain.ok
         /\ stored # DigestBytes(Sha256(original)))
        => /\ ~res.ret.success
           /\ res.ret.error = "Data integrity check failed"
           /\ "data" \notin DOMAIN res.ret

\* A STANDARD ciphertext of text that starts with four zero bytes, handled
\* at HIGH level under the key it was encrypted with: the AEAD check passes,
\* the length field reads 0 and the hash field holds "abc".
C8_Witness ==
    /\ res.op = "decrypt_data"
    /\ res.mtamper = "as_high"
    /\ held.input = LengthPrefixed
    /\ ~held.rotated
    /\ ~res.ret.success
    /\ res.ret.error = "Data integrity check failed"

\* C9: when encrypting a policy field fails inside encrypt_client_data, the
\* result is not a success that lacks the field and carries no report of it.
C9_FieldFailureReported ==
    res.op = "encrypt_client_data"
    => \A f \in PolicyFields \cap DOMAIN held.input :
           (res.ret.success /\ f \notin DOMAIN res.ret.encrypted_client_data)
           => DOMAIN res.ret # {"success", "encrypted_client_data", "encryption_summary"}

\* C10: rotate_keys returns a new_version different from old_version, and
\* after it every category's key is the one derived under new_version and
\* differs from the category's key before the call (res.raw).
C10_RotationGivesFreshVersion ==
    res.op = "rotate_keys"
    => /\ res.ret.new_version # res.ret.old_version
       /\ res.ret.new_version = key_version
       /\ \A c \in DataCategory :
              /\ data_keys[c] = derive_category_key(master_key, key_version, c)
              /\ data_keys[c] # res.raw[c]

\* C11 (as stated): decrypt_data with metadata whose algorithm id is none of
\* the service's, whatever the ciphertext and the rest of the metadata,
\* fails with the unknown-algorithm error and returns no data.
C11_UnknownAlgorithmError ==
    (res.op = "decrypt_data" /\ res.mtamper \in UnknownAlgorithms)
    => /\ ~res.ret.success
       /\ res.ret.error = "Unsupported decryption algorithm"
       /\ "data" \notin DOMAIN res.ret

\* C11 (amended): decrypt_data with metadata whose algorithm id is none of
\* the service's always fails and returns no data; the error is the
\* unknown-algorithm error when the metadata's level and category are members
\* of their enumerations (they are looked up first).
C11_UnknownAlgorithmFails ==
    LET metadata == MetaTamper(res.mtamper, held.ret.metadata)
    IN  (res.op = "decrypt_data" /\ res.mtamper \in UnknownAlgorithms)
        => /\ ~res.ret.success
           /\ "data" \notin DOMAIN res.ret
           /\ (metadata.encryption_level \in EncryptionLevel
               /\ metadata.data_category \in DataCategory)
              => res.ret.error = "Unsupported decryption algorithm"

C11_Witness ==
    /\ res.op = "decrypt_data"
    /\ res.mtamper = "unknown_algorithm"
    /\ res.tamper = [part |-> "blob", how |-> "slack"]
    /\ held.ret.encryption_level = "standard"
    /\ ~res.ret.success
    /\ res.ret.error = "Unsupported decryption algorithm"

\* C12: encrypt_data called with a category that is no member of
\* DataCategory, at any level and with or without a data_id, ends by raising
\* an error to the caller, not by returning a result.  (res.raw is the call.)
C12_InvalidCategoryRaises ==
    (res.op = "encrypt_data" /\ res.raw.category \notin DataCategory)
    => res.outcome = "raised"

\* C13: encrypt_data of a value whose serialized text is empty is rejected
\* at every level: the result is a failure without encrypted_data and
\* without metadata.
C13_EmptyPlaintextRejected ==
    (res.op = "encrypt_data" /\ Serialize(res.raw.data) = [ok |-> TRUE, text |-> <<>>])
    => /\ ~res.ret.success
       /\ "encrypted_data" \notin DOMAIN res.ret
       /\ "metadata" \notin DOMAIN res.ret

(***************************************************************************)
(* Properties of starting the service (SpecBoot).                          *)
(***************************************************************************)
\* C14: over initialisations on one path that all ran to their end, the
\* master key is the content of the key file; a file that was there before
\* the first start is never written and keeps its content; a file that was
\* not there is generated once, written once and has owner-only access when
\* the initialisation returns; every initialisation obtained the same key.
C14_LoadOrGenerateIdempotent ==
    (pc.state = "idle" /\ ~key_file.interrupted)
    => /\ key_file.exists
       /\ master_key = key_file.content
       /\ key_file.secrets = {master_key}
       /\ key_file.original # "absent"
          => /\ key_file.content = key_file.original
             /\ key_file.writes = 0
             /\ key_file.generated = 0
       /\ key_file.original = "absent"
          => /\ key_file.mode = OwnerOnly
             /\ key_file.writes = 1
             /\ key_file.generated = 1

\* A second initialisation on a path whose key the first one generated.
C14_Witness ==
    /\ pc.state = "idle"
    /\ ~key_file.interrupted
    /\ key_file.original = "absent"
    /\ key_file.inits = 2
    /\ master_key = GeneratedKey(1)

\* C15: the service never runs on a master key read from a key file that
\* holds nothing or only the start of a key: such an initialisation fails.
C15_CorruptKeyFileRejected ==
    pc.state = "idle" => master_key \notin {EmptyContent, TruncatedContent}

\* C16: when loading or creating the master key fails, the error leaves the
\* start of the program as an exception; the program does not go on
\* without the service.
C16_StartupFailureIsFatal ==
    (res.op = "startup" /\ ~res.ret.success)
    => res.outcome = "raised" /\ pc.state # "absent"

(***************************************************************************)
(* Properties of the algorithm ids (Spec), the data ids (SpecTwice), the   *)
(* status (SpecBoot) and the returned values (Spec).                       *)
(***************************************************************************)
\* C17: the algorithm id in the metadata of an artifact is the id registered
\* for the level that encrypted it, and no other level is registered under
\* that id, so the id alone names the strategy that produced the artifact.
C17_AlgorithmIdNamesLevel ==
    (res.op = "encrypt_data" /\ res.ret.success)
    => /\ res.ret.metadata.algorithm = encryption_config[res.raw.level].algorithm
       /\ \A level \in EncryptionLevel :
             encryption_config[level].algorithm = res.ret.metadata.algorithm
             => level = res.raw.level

\* C18: two encryptions give artifacts with different data_id values: an
\* encrypt_data result that is another artifact than the held one does not
\* carry the held artifact's data_id.
C18_DataIdsDiffer ==
    (/\ res.op = "encrypt_data"
     /\ res.ret.success
     /\ held.kind = "artifact"
     /\ res.ret.encrypted_data # held.ret.encrypted_data)
    => res.ret.data_id # held.ret.data_id

C20_NoKeyInReturnedValue ==
    LET Sealed(bytes) ==
            \A i \in 1..Len(bytes) :
                bytes[i][1] \in {"rnd", "ct", "tag", "fernet", "oaep", "pem"}
        Component(text) == text[1] = "b64" /\ Sealed(text[2])
        Artifact(text) ==
            /\ text[1] = "b64"
            /\ IF IsChunk(text[2], "json")
               THEN \A name \in DOMAIN text[2][1][2] : Component(text[2][1][2][name])
               ELSE Sealed(text[2])
        Meta(metadata) ==
            /\ DOMAIN metadata = {"data_id", "encryption_level", "data_category",
                                  "encrypted_at", "key_version", "algorithm", "salt", "iv"}
            /\ metadata.salt = None
            /\ metadata.iv = None \/ Component(metadata.iv)
        Value(data) == data[1] \in {"str", "num", "lit", "list", "dict"}
        Encrypted(ret) ==
            /\ DOMAIN ret \subseteq {"success", "error", "data_id", "encrypted_data",
                                     "metadata", "encryption_level", "category"}
            /\ ret.success => Artifact(ret.encrypted_data) /\ Meta(ret.metadata)
        Decrypted(ret) ==
            /\ DOMAIN ret \subseteq {"success", "error", "data", "data_id"}
            /\ ret.success => Value(ret.data)
        Record(record, input) ==
            \A f \in DOMAIN record :
                IF f = "_encryption_metadata"
                THEN \A g \in DOMAIN record[f] : Meta(record[f][g])
                ELSE IF f \in PlainFields THEN record[f] = input[f]
                ELSE Artifact(record[f])
        EncryptedClient(ret) ==
            /\ DOMAIN ret \subseteq {"success", "error", "encrypted_client_data",
                                     "encryption_summary"}
            /\ ret.success => Record(ret.encrypted_client_data, held.input)
        DecryptedClient(ret) ==
            /\ DOMAIN ret \subseteq {"success", "error", "decrypted_client_data",
                                     "decryption_summary", "data", "data_id"}
            /\ ("decrypted_client_data" \in DOMAIN ret)
               => \A f \in DOMAIN ret.decrypted_client_data :
                     Value(ret.decrypted_client_data[f])
        Rotated(ret) ==
            DOMAIN ret \subseteq {"success", "error", "old_version", "new_version",
                                  "rotated_at", "message"}
        Status(ret) ==
            /\ DOMAIN ret \subseteq {"encryption_available", "key_version",
                                     "supported_levels", "supported_categories",
                                     "master_key_exists", "keys_initialized",
                                     "status_timestamp"}
            /\ ret.master_key_exists \in BOOLEAN
            /\ ret.keys_initialized \in BOOLEAN
    IN  CASE res.op = "encrypt_data" -> Encrypted(res.ret)
          [] res.op = "decrypt_data" -> Decrypted(res.ret)
          [] res.op = "encrypt_client_data" -> EncryptedClient(res.ret)
          [] res.op = "decrypt_client_data" -> DecryptedClient(res.ret)
          [] res.op = "rotate_keys" -> Rotated(res.ret)
          [] res.op = "get_encryption_status" -> Status(res.ret)
          [] OTHER -> TRUE

\* rotate_keys has returned while an artifact of level MAXIMUM, which carries
\* a wrapped key, is held.
C20_Witness ==
    /\ res.op = "rotate_keys"
    /\ res.ret.success
    /\ res.raw # data_keys
    /\ held.kind = "artifact"
    /\ held.ret.encryption_level = "maximum"

C22_StampMatchesKey ==
    LET KeyUsed(bytes, level) ==
            IF level = "basic" THEN bytes[1][2] ELSE bytes[NonceLen + 1][3]
        Stamped(ret) ==
            KeyUsed(B64Decode(ret.encrypted_data).bytes, ret.encryption_level)
            = derive_category_key(master_key, ret.metadata.key_version, ret.category)
    IN  (/\ res.op = "encrypt_data"
         /\ res.ret.success
         /\ res.ret.encryption_level \in {"basic", "standard", "high"})
        => Stamped(res.ret)

\* C23: when rotate_keys calls that ran at the same time have all returned,
\* every category holds the key derived under the current key_version.
C23_CacheConsistentAfterRotations ==
    (pc.state = "idle" /\ res.op = "rotate_keys" /\ res.ret.success)
    => \A c \in DataCategory :
          data_keys[c] = derive_category_key(master_key, key_version, c)

\* C30: when rotate_keys returns success false, key_version and every
\* category key are what they were before the call.
C30_FailedRotationChangesNothing ==
    (res.op = "rotate_keys" /\ ~res.ret.success)
    => /\ key_version = res.raw.old_version
       /\ data_keys = res.raw.old_keys

(***************************************************************************)
(* What the operations change (Spec).                                      *)
(***************************************************************************)
\* C24: no step changes the master key, and a step of encrypt_data,
\* decrypt_data, encrypt_client_data, decrypt_client_data or
\* get_encryption_status, successful or not, changes neither key_version
\* nor the category keys: only rotate_keys does.  (The service has no
\* variable in which an artifact could be kept.)
C24_OnlyRotationChangesKeys ==
    [][/\ master_key' = master_key
       /\ res'.op # "rotate_keys"
          => key_version' = key_version /\ data_keys' = data_keys]_vars

\* A decrypt_data that failed after the keys were rotated.
C24_Witness ==
    /\ res.op = "decrypt_data"
    /\ ~res.ret.success
    /\ key_version # InitialVersion
    /\ \A c \in DataCategory :
          data_keys[c] = derive_category_key(master_key, key_version, c)

(***************************************************************************)
(* The layout of a STANDARD artifact (Spec).                               *)
(***************************************************************************)
\* C25: the bytes of a STANDARD artifact of a plaintext of n bytes are 12
\* bytes of nonce, the same as the nonce in the metadata, then 16 bytes of
\* tag, then the n bytes of ciphertext of the plaintext, n + 28 in all; and
\* decryption of the artifact as stored, under the keys it was made with,
\* takes the same three parts and yields the plaintext bytes.
C25_StandardLayout ==
    LET Laid(bytes, iv, plain) ==
            /\ Len(iv) = 12
            /\ Len(bytes) = Len(plain) + 28
            /\ \A i \in 1..12 : bytes[i] = iv[i] /\ bytes[i][1] = "rnd"
            /\ \A i \in 13..28 : bytes[i][1] = "tag" /\ bytes[i][2] = i - 12
            /\ \A i \in 29..Len(bytes) :
                  /\ bytes[i][1] = "ct"
                  /\ bytes[i][4] = i - 28
                  /\ bytes[i][5] = plain[i - 28]
        Plain(data) == Utf8Encode(Serialize(data).text)
    IN  /\ (/\ res.op = "encrypt_data"
            /\ res.ret.success
            /\ res.ret.encryption_level = "standard")
           => Laid(B64Decode(res.ret.encrypted_data).bytes,
                   B64Decode(res.ret.metadata.iv).bytes,
                   Plain(res.raw.data))
        /\ (/\ res.op = "decrypt_data"
            /\ held.ret.encryption_level = "standard"
            /\ res.tamper = NoTamper
            /\ res.mtamper = "none"
            /\ ~held.rotated)
           => res.raw = Returned(Plain(held.input))

\* A STANDARD artifact of the two bytes "hi": 30 bytes.
C25_Witness ==
    /\ res.op = "encrypt_data"
    /\ res.ret.success
    /\ res.ret.encryption_level = "standard"
    /\ res.raw.data = PlainText
    /\ Len(B64Decode(res.ret.encrypted_data).bytes) = 30

(***************************************************************************)
(* decrypt_data with changed metadata (SpecForeign).                       *)
(***************************************************************************)
\* C28: decrypt_data of an unchanged ciphertext with changed metadata never
\* succeeds with data other than the value that was encrypted (or than what
\* decrypt_data returns for it with the metadata unchanged).
C28_ChangedMetadataNeverOtherData ==
    (/\ res.op = "decrypt_data"
     /\ res.tamper = NoTamper
     /\ res.mtamper # "none"
     /\ res.ret.success)
    => \/ res.ret.data = held.input
       \/ res.ret.data = Deserialize(Serialize(held.input).text)

\* C26: an artifact encrypted by one instance, before or after that instance
\* rotated its keys, is decrypted successfully by a later instance started
\* from the same key file, from its ciphertext and metadata alone (no
\* rotate_keys call since the artifact was made, in either instance).
C26_LaterInstanceDecrypts ==
    (/\ res.op = "decrypt_data"
     /\ res.tamper = NoTamper /\ res.mtamper = "none"
     /\ key_file.inits >= 2
     /\ ~held.rotated)
    => res.ret.success

\* C27: when two instances are started at the same time on the same path and
\* there is no key file, once both have finished starting they hold the
\* same master key, and it is the content of the key file.
C27_ConcurrentStartsAgree ==
    (pc.state = "idle" /\ pc.peer.state = "idle")
    => /\ master_key = pc.peer.master_key
       /\ master_key = key_file.content

\* C29: in a record encrypt_client_data returns, every policy field that is
\* present holds ciphertext (base64 text, not the value that came in) and
\* has an entry in _encryption_metadata; the keys of _encryption_metadata
\* are exactly those fields, encryption_summary.encrypted_fields lists them
\* and total_fields counts them.
C29_PolicyFieldsNeverPlain ==
    (res.op = "encrypt_client_data" /\ res.ret.success)
    => LET record == res.ret.encrypted_client_data
           metadata == record["_encryption_metadata"]
           sealed == {f \in PolicyFields \cap DOMAIN record : record[f][1] = "b64"}
       IN  /\ \A f \in PolicyFields \cap DOMAIN record :
                  f \in sealed /\ f \in DOMAIN metadata
           /\ DOMAIN metadata = sealed
           /\ res.ret.encryption_summary.encrypted_fields = InOrder(PolicyOrder, sealed)
           /\ res.ret.encryption_summary.total_fields = Cardinality(sealed)

\* A record with one field encrypted and one whose encryption failed.
C29_Witness ==
    /\ res.op = "encrypt_client_data"
    /\ res.ret.success
    /\ "bioData" \in DOMAIN held.input
    /\ "bioData" \notin DOMAIN res.ret.encrypted_client_data
    /\ "economicContext" \in DOMAIN res.ret.encrypted_client_data["_encryption_metadata"]
    /\ res.ret.encrypted_client_data["economicContext"][1] = "b64"
    /\ res.ret.encryption_summary.total_fields = 1

=============================================================================
